---- MODULE Spec2Model ----
(***************************************************************************)
(* A11y Menu 1.0.0 (src/a11y-menu.js, lines 1007-1536) and the scripts     *)
(* before it (0.0.6, 0.0.7, 0.0.9, same file): the DOM-behaviour           *)
(* controller as a state machine.  The state is the part of the page the   *)
(* script reads and writes (the expanded class, aria-haspopup, the toggle  *)
(* buttons and their aria-expanded / aria-label, the registered event      *)
(* listeners, document.activeElement) plus the listener calls of the event *)
(* the browser is dispatching.  Every listener call is one action.         *)
(***************************************************************************)
EXTENDS Integers, Sequences, FiniteSets, TLC

VARIABLES
    version,     \* the version of the script the page loads
    config,      \* window.a11yMenuConfig, the argument of init
    hasPath,     \* TRUE when the browser's events carry the event.path array
    options,     \* a11yMenu.options, set by setOptions
    menus,       \* a11yMenu.menus, the cached array of menu containers
    haspopup,    \* the elements with aria-haspopup="true"
    btnCount,    \* per child menu: the toggle buttons init inserted before it
    touchL,      \* per link: touchstart listeners (onTouchLink)
    focusL,      \* per menu container: focusin/focusout listener pairs (onFocus)
    escL,        \* document keyup listeners (onKeyESC)
    clickL,      \* per button: mousedown/keyup listener pairs (onClickButton)
    cls,         \* the elements that carry the expanded class
    expanded,    \* per button: its aria-expanded attribute
    label,       \* per button: its aria-label attribute
    active,      \* document.activeElement
    queue,       \* listener calls of the event being dispatched, in order
    prevented,   \* event.defaultPrevented of the event being dispatched
    last,        \* the listener call (or default action) that ended last
    inited,      \* TRUE once init has returned
    error,       \* the exception init or the last listener call ended with, or null
    boot,        \* the page load: document.readyState, the script, the init calls
    track,       \* TRUE when hist is kept
    hist         \* the last touches, when no other event came between them

vars == <<version, config, hasPath, options, menus, haspopup, btnCount, touchL, focusL,
          escL, clickL, cls, expanded, label, active, queue, prevented, last,
          inited, error, boot, track, hist>>

setupVars == <<version, config, hasPath, options, menus, haspopup, btnCount,
               touchL, focusL, escL, clickL, inited, boot, track>>

pageVars == <<setupVars, error>>

-----------------------------------------------------------------------------
(* The page.  Three containers match the default menu selector.  M1 is a   *)
(* two-level menu: its top item A and the item A2 below it have a link     *)
(* without href (a non-clickable parent item), so that the first a[href]   *)
(* inside A is the link of A1 and the first a[href] inside A2 is the link  *)
(* of its leaf item L2; A1 has its own link.  M2 has one expandable item   *)
(* with its own link.  M3 has no child menu.  Each b* is the toggle button *)
(* of the child menu s* next to it; it is in the document once init has    *)
(* inserted it.                                                            *)

NULL == "null"

Kids(n) ==
    CASE n = "window"   -> <<"document">>
      [] n = "document" -> <<"html">>
      [] n = "html"     -> <<"body">>
      [] n = "body"     -> <<"M1", "M2", "M3">>
      [] n = "M1"       -> <<"A">>
      [] n = "A"        -> <<"aA", "bA", "sA">>
      [] n = "sA"       -> <<"A1", "A2">>
      [] n = "A1"       -> <<"aA1", "bA1", "sA1">>
      [] n = "sA1"      -> <<"L1">>
      [] n = "A2"       -> <<"aA2", "bA2", "sA2">>
      [] n = "sA2"      -> <<"L2">>
      [] n = "L2"       -> <<"aL2">>
      [] n = "M2"       -> <<"P">>
      [] n = "P"        -> <<"aP", "bP", "sP">>
      [] n = "sP"       -> <<"R">>
      [] n = "M3"       -> <<"N">>
      [] OTHER          -> << >>

MenuNodes  == {"M1", "M2", "M3"}
Items      == {"A", "A1", "A2", "L1", "L2", "P", "R", "N"}
ChildMenus == {"sA", "sA1", "sA2", "sP"}
Buttons    == {"bA", "bA1", "bA2", "bP"}
Links      == {"aA", "aA1", "aA2", "aL2", "aP"}
HrefLinks  == Links \ {"aA", "aA2"}
Elements   == {"html", "body"} \cup MenuNodes \cup Items \cup ChildMenus
                \cup Buttons \cup Links
Nodes      == {"window", "document"} \cup Elements

Range(s) == {s[i] : i \in 1..Len(s)}

\* Node.parentNode
ParentOf ==
    [n \in Nodes \cup {NULL} |->
        IF \E p \in Nodes : n \in Range(Kids(p))
        THEN CHOOSE p \in Nodes : n \in Range(Kids(p))
        ELSE NULL]

parentNode(n) == ParentOf[n]

\* The child menu a button belongs to: its next sibling.
NextSiblingOf ==
    [b \in Buttons |->
        CHOOSE s \in ChildMenus :
            \E i \in 1..(Len(Kids(ParentOf[b])) - 1) :
                Kids(ParentOf[b])[i] = b /\ Kids(ParentOf[b])[i + 1] = s]

ChildMenuOf(b) == NextSiblingOf[b]

\* A node is in the document unless it is a button init has not inserted.
InDocument(n) == n \in Buttons => btnCount[ChildMenuOf(n)] > 0

RECURSIVE Flatten(_)
Flatten(ss) == IF ss = << >> THEN << >> ELSE Head(ss) \o Flatten(Tail(ss))

\* The descendants of n in document order.
RECURSIVE PreOrder(_)
PreOrder(n) ==
    Flatten([i \in 1..Len(Kids(n)) |-> <<Kids(n)[i]>> \o PreOrder(Kids(n)[i])])

DescendantsOf == [n \in Nodes |-> PreOrder(n)]

Descendants(n) == DescendantsOf[n]

\* event.path: the target and its ancestors up to window
RECURSIVE PathUp(_)
PathUp(n) == IF n = NULL THEN << >> ELSE <<n>> \o PathUp(ParentOf[n])

PathOf == [n \in Nodes |-> PathUp(n)]

PathFrom(n) == PathOf[n]

-----------------------------------------------------------------------------
(* Values of the configuration object.  A value carries its JavaScript     *)
(* type: a string, or an object with the keys collapse and expand.         *)

Str(s)    == [t |-> "string", s |-> s]
Obj(c, e) == [t |-> "object", collapse |-> c, expand |-> e]

\* String( value ), as Element.setAttribute() converts its second argument.
AttrString(v) == IF v.t = "string" THEN v.s ELSE "[object Object]"

\* Boolean.prototype.toString()
BoolToString(b) == IF b THEN "true" ELSE "false"

LabelCollapse == "Collapse child menu"
LabelExpand   == "Expand child menu"

\* 'has-expanded-sub-menu', as its characters
ClassDefault ==
    <<"h", "a", "s", "-", "e", "x", "p", "a", "n", "d", "e", "d", "-",
      "s", "u", "b", "-", "m", "e", "n", "u">>

ClassChars ==
    {"a", "b", "c", "d", "e", "f", "g", "h", "i", "j", "k", "l", "m", "n", "o",
     "p", "q", "r", "s", "t", "u", "v", "w", "x", "y", "z",
     "A", "B", "C", "D", "E", "F", "G", "H", "I", "J", "K", "L", "M", "N", "O",
     "P", "Q", "R", "S", "T", "U", "V", "W", "X", "Y", "Z",
     "0", "1", "2", "3", "4", "5", "6", "7", "8", "9", "-", "_"}

\* config[ id ].replace( /[^a-zA-Z0-9\-_]/g, '' )
SanitizeClass(c) == SelectSeq(c, LAMBDA ch : ch \in ClassChars)

ButtonAttsDefault ==
    [n \in {"class", "aria-label"} |->
        IF n = "class" THEN Str("button-toggle-sub-menu")
        ELSE Obj(LabelCollapse, LabelExpand)]

AllModes == {"tab", "esc", "button", "touch"}

OptionsDefault ==
    [button_attributes   |-> ButtonAttsDefault,
     child_menu_selector |-> ".sub-menu",
     expanded_class      |-> ClassDefault,
     menu_selector       |-> "nav .menu",
     mode                |-> AllModes]

OptionIds == {"button_attributes", "child_menu_selector", "expanded_class",
              "menu_selector", "mode"}

\* A number as a configuration value.
Num(n) == [t |-> "number", n |-> n]

\* setOptions ends with a TypeError when expanded_class is supplied and is
\* not a string: the value has no replace method.
setOptionsThrows(cfg) ==
    "expanded_class" \in DOMAIN cfg /\ cfg["expanded_class"].t # "string"

\* A setOptions that stores the expanded class as it was supplied.
setOptionsRaw(cfg) ==
    [id \in OptionIds |->
        IF id \in DOMAIN cfg
        THEN IF id = "expanded_class" THEN cfg[id].s ELSE cfg[id]
        ELSE OptionsDefault[id]]

\* The options object setOptions builds from a configuration object (a
\* function from the supplied keys to their values; expanded_class is
\* supplied as a value with its type, a string being its characters).
setOptions(cfg) ==
    [id \in OptionIds |->
        IF id \in DOMAIN cfg
        THEN IF id = "expanded_class" THEN SanitizeClass(cfg[id].s) ELSE cfg[id]
        ELSE OptionsDefault[id]]

\* getOption( 'button_attributes', 'aria-label' ): false when the key is absent.
LabelOption(opts) ==
    IF "aria-label" \in DOMAIN opts.button_attributes
    THEN opts.button_attributes["aria-label"]
    ELSE [t |-> "false"]

\* An isMode that finds every mode enabled.
isModeAny(opts, mode) == mode \in AllModes

isMode(opts, mode) == mode \in opts.mode

-----------------------------------------------------------------------------
(* Selectors                                                               *)

SelMenu     == "nav .menu"
SelMenu06   == ".toggle-sub-menus"
SelChild    == ".sub-menu"
SelHref     == "a[href]"
SelButton   == "button[aria-expanded]"
SelHaspopup == "[aria-haspopup=\"true\"]"

\* Element.matches( selector ), given the aria-haspopup elements hp and the
\* button counts bc of the document.
Matches(n, sel, hp, bc) ==
    CASE sel = SelMenu     -> n \in MenuNodes
      [] sel = SelMenu06   -> n \in MenuNodes
      [] sel = SelChild    -> n \in ChildMenus
      [] sel = SelHref     -> n \in HrefLinks
      [] sel = SelButton   -> n \in Buttons /\ bc[ChildMenuOf(n)] > 0
      [] sel = SelHaspopup -> n \in hp
      [] OTHER             -> FALSE

\* root.querySelectorAll( selector ), in document order
querySelectorAll(root, sel, hp, bc) ==
    SelectSeq(Descendants(root), LAMBDA n : Matches(n, sel, hp, bc))

\* root.querySelector( selector ): the first match, or null
querySelector(root, sel, hp, bc) ==
    IF querySelectorAll(root, sel, hp, bc) = << >> THEN NULL
    ELSE Head(querySelectorAll(root, sel, hp, bc))

\* Array.prototype.indexOf
IndexOf(seq, x) ==
    IF \E i \in 1..Len(seq) : seq[i] = x
    THEN (CHOOSE i \in 1..Len(seq) : seq[i] = x /\ \A j \in 1..(i - 1) : seq[j] # x) - 1
    ELSE -1

\* getMenus: fills the cached array on its first use.
getMenus(opts, cached) ==
    IF cached = << >> /\ opts.menu_selector # ""
    THEN querySelectorAll("document", opts.menu_selector, {}, [s \in ChildMenus |-> 0])
    ELSE cached

\* Names an attribute of the button may have: 'class', 'tabindex', 'title',
\* and every name starting with 'aria-' or 'data-'.
AttNames     == {"class", "tabindex", "title", "aria-label", "aria-expanded",
                 "data-toggle", "id"}
AllowedAtts  == {"class", "tabindex", "title"}
AriaDataAtts == {"aria-label", "aria-expanded", "data-toggle"}

\* A getButton that does not preset aria-expanded.
getButtonUnset(opts) ==
    LET atts == opts.button_attributes
    IN  IF DOMAIN atts = {} \/ ~isMode(opts, "button")
        THEN [null |-> TRUE, expanded |-> NULL, label |-> NULL]
        ELSE [null     |-> FALSE,
              expanded |-> IF "aria-expanded" \in DOMAIN atts
                           THEN AttrString(atts["aria-expanded"]) ELSE NULL,
              label    |-> IF "aria-label" \in DOMAIN atts
                           THEN IF atts["aria-label"].t = "object"
                                THEN atts["aria-label"].expand
                                ELSE AttrString(atts["aria-label"])
                           ELSE NULL]

\* getButton: null, or the aria-expanded and aria-label of the button that
\* init clones.
getButton(opts) ==
    LET atts == opts.button_attributes
        set  == {n \in DOMAIN atts : n \in AllowedAtts \/ n \in AriaDataAtts}
    IN  IF DOMAIN atts = {} \/ ~isMode(opts, "button")
        THEN [null |-> TRUE, expanded |-> NULL, label |-> NULL]
        ELSE [null     |-> FALSE,
              expanded |-> IF "aria-expanded" \in set
                           THEN AttrString(atts["aria-expanded"]) ELSE "false",
              label    |-> IF "aria-label" \in DOMAIN atts
                              /\ atts["aria-label"].t = "object"
                           THEN atts["aria-label"].expand
                           ELSE IF "aria-label" \in set
                           THEN AttrString(atts["aria-label"]) ELSE NULL]

-----------------------------------------------------------------------------
(* Events and nodes as the handlers receive them: an element has           *)
(* nodeType 1, an event has none (0 here) and has a type, a target and a   *)
(* key code.  The page state a handler changes is d = [cls, expanded,      *)
(* label].                                                                 *)

Node(n) == [nodeType |-> 1, node |-> n]

Event(type, target, keyCode) ==
    [nodeType |-> 0, type |-> type, target |-> target, keyCode |-> keyCode]

KeyEnter == 13
KeySpace == 32
KeyEsc   == 27

\* The index getParents splices event.path at: that of the first menu of
\* the array found in the path; -1 when the loop ends without one.
RECURSIVE SpliceId(_, _)
SpliceId(path, ms) ==
    IF ms = << >> THEN -1
    ELSE IF IndexOf(path, Head(ms)) # -1 \/ Len(ms) = 1
         THEN IndexOf(path, Head(ms))
         ELSE SpliceId(path, Tail(ms))

\* array.splice( start ): what is left of the array
SpliceFrom(seq, start) ==
    IF start >= 0 THEN SubSeq(seq, 1, IF start < Len(seq) THEN start ELSE Len(seq))
    ELSE SubSeq(seq, 1, IF Len(seq) + start > 0 THEN Len(seq) + start ELSE 0)

\* array.shift(): what is left of the array
Shift(seq) == IF seq = << >> THEN << >> ELSE Tail(seq)

\* The while loop of getParents: the node and its ancestors below the menu
\* container (every node the handlers pass lies inside a container).
RECURSIVE ParentsBelowMenu(_)
ParentsBelowMenu(node) ==
    IF node = NULL \/ IndexOf(menus, node) # -1 THEN << >>
    ELSE <<node>> \o ParentsBelowMenu(parentNode(node))

\* The array getParents builds before it filters it by the selector.
ParentsOf(eventOrNode) ==
    IF eventOrNode.nodeType # 1 /\ hasPath
    THEN Shift(SpliceFrom(PathFrom(eventOrNode.target),
                          IF menus = << >> THEN 0
                          ELSE SpliceId(PathFrom(eventOrNode.target), menus)))
    ELSE ParentsBelowMenu(IF eventOrNode.nodeType = 1
                          THEN eventOrNode.node ELSE eventOrNode.target)

IsExpandable(n) == n \in Elements /\ Matches(n, SelHaspopup, haspopup, btnCount)

\* A getParents that returns the nearest matching parent only.
getParentsNearest(eventOrNode) ==
    LET found == SelectSeq(ParentsOf(eventOrNode), IsExpandable)
    IN  IF found = << >> THEN found ELSE <<Head(found)>>

\* A getParents that does not filter by the selector.
getParentsUnfiltered(eventOrNode) == ParentsOf(eventOrNode)

getParents(eventOrNode) == SelectSeq(ParentsOf(eventOrNode), IsExpandable)

getSiblings(node) ==
    SelectSeq(Kids(parentNode(node)),
              LAMBDA sib : /\ InDocument(sib)
                           /\ Matches(sib, SelHaspopup, haspopup, btnCount)
                           /\ sib # node)

\* A changeButtonAttributes that relabels the button whatever the type of
\* the aria-label option.
changeButtonAttributesRelabel(d, eventOrNode) ==
    LET menuItem == IF eventOrNode.nodeType = 1 THEN eventOrNode.node
                    ELSE parentNode(eventOrNode.target)
        button == IF menuItem # NULL
                  THEN querySelector(menuItem, SelButton, haspopup, btnCount)
                  ELSE NULL
        isExpanded == menuItem \in d.cls
    IN  IF button = NULL THEN d
        ELSE [d EXCEPT
                !.label[button] = IF isExpanded THEN LabelCollapse ELSE LabelExpand,
                !.expanded[button] = BoolToString(isExpanded)]

changeButtonAttributes(d, eventOrNode) ==
    LET menuItem == IF eventOrNode.nodeType = 1 THEN eventOrNode.node
                    ELSE parentNode(eventOrNode.target)
        button == IF menuItem # NULL
                  THEN querySelector(menuItem, SelButton, haspopup, btnCount)
                  ELSE NULL
        isExpanded  == menuItem \in d.cls
        buttonLabel == LabelOption(options)
    IN  IF button = NULL THEN d
        ELSE [d EXCEPT
                !.label[button] =
                    IF buttonLabel.t = "object"
                    THEN IF isExpanded /\ buttonLabel.collapse # NULL
                         THEN buttonLabel.collapse
                         ELSE IF ~isExpanded /\ buttonLabel.expand # NULL
                         THEN buttonLabel.expand
                         ELSE @
                    ELSE @,
                !.expanded[button] = BoolToString(isExpanded)]

\* items.map( ( menuItem ) => _.changeButtonAttributes( menuItem ) )
RECURSIVE ChangeEach(_, _)
ChangeEach(d, items) ==
    IF items = << >> THEN d
    ELSE ChangeEach(changeButtonAttributes(d, Node(Head(items))), Tail(items))

\* An onFocus that does nothing on focusout.
onFocusInOnly(d, event) ==
    LET parents == getParents(event)
        d1 == [d EXCEPT !.cls = @ \cup Range(parents)]
    IN  IF event.type # "focusin" THEN d
        ELSE IF isMode(options, "button")
        THEN ChangeEach(changeButtonAttributes(d1, event), parents)
        ELSE d1

onFocus(d, event) ==
    LET parents == getParents(event)
        d1 == [d EXCEPT !.cls = IF event.type = "focusin"
                                THEN @ \cup Range(parents)
                                ELSE @ \ Range(parents)]
    IN  IF isMode(options, "button")
        THEN ChangeEach(changeButtonAttributes(d1, event), parents)
        ELSE d1

\* The result of a handler that may prevent the default action: the page
\* state, whether it called event.preventDefault(), and the focused element.
Result(d, p, a) == [d |-> d, prevented |-> p, active |-> a]

\* A toggle that also collapses what is below the item and its siblings.
toggleClassDeep(d, menuItem, siblings) ==
    LET below == UNION {Range(Descendants(n)) : n \in Range(siblings) \cup {menuItem}}
    IN  [d EXCEPT !.cls = IF menuItem \in d.cls
                          THEN ((@ \ Range(siblings)) \ {menuItem}) \ below
                          ELSE ((@ \ Range(siblings)) \ below) \cup {menuItem}]

\* A toggle that leaves the siblings as they are.
toggleClassKeepSiblings(d, menuItem, siblings) ==
    [d EXCEPT !.cls = IF menuItem \in d.cls THEN @ \ {menuItem} ELSE @ \cup {menuItem}]

\* A toggle that only ever adds the class.
toggleClassAddOnly(d, menuItem, siblings) ==
    [d EXCEPT !.cls = (@ \ Range(siblings)) \cup {menuItem}]

\* onClickButton: the class leaves the siblings and is toggled on the item.
toggleClass(d, menuItem, siblings) ==
    [d EXCEPT !.cls = IF menuItem \in d.cls
                      THEN (@ \ Range(siblings)) \ {menuItem}
                      ELSE (@ \ Range(siblings)) \cup {menuItem}]

\* An onClickButton that does not look at the key code.
onClickButtonAnyKey(d, event, act) ==
    LET menuItem == parentNode(event.target)
        siblings == getSiblings(menuItem)
        d1 == toggleClass(d, menuItem, siblings)
        d2 == ChangeEach(changeButtonAttributes(d1, event), siblings)
    IN  Result(ChangeEach(d2, getParents(Node(menuItem))), TRUE, act)

\* An onClickButton that does not call event.preventDefault().
onClickButtonNoPrevent(d, event, act) ==
    IF event.type = "keyup" /\ event.keyCode \notin {KeyEnter, KeySpace}
    THEN Result(d, FALSE, act)
    ELSE LET menuItem == parentNode(event.target)
             siblings == getSiblings(menuItem)
             d1 == toggleClass(d, menuItem, siblings)
             d2 == ChangeEach(changeButtonAttributes(d1, event), siblings)
         IN  Result(ChangeEach(d2, getParents(Node(menuItem))), FALSE, act)

onClickButton(d, event, act) ==
    IF event.type = "keyup" /\ event.keyCode \notin {KeyEnter, KeySpace}
    THEN Result(d, FALSE, act)
    ELSE LET button   == event.target
             menuItem == parentNode(button)
             siblings == getSiblings(menuItem)
             d1 == toggleClass(d, menuItem, siblings)
             d2 == changeButtonAttributes(d1, event)
             d3 == ChangeEach(d2, siblings)
             d4 == ChangeEach(d3, getParents(Node(menuItem)))
         IN  Result(d4, TRUE, act)

\* The value onClickButton returns: false from the key check, else none.
onClickButtonReturns(event) ==
    IF event.type = "keyup" /\ event.keyCode \notin {KeyEnter, KeySpace}
    THEN "false" ELSE "undefined"

\* The menu containers whose capturing focus listeners an event on n passes.
FocusListeners(n) ==
    SelectSeq(menus, LAMBDA m : focusL[m] > 0 /\ n \in Range(Descendants(m)))

\* The onFocus calls of one focus event, one per registered listener.
RECURSIVE FocusCalls(_, _, _)
FocusCalls(type, target, k) ==
    IF k = 0 THEN << >>
    ELSE <<[h |-> "onFocus", ev |-> Event(type, target, 0)]>>
            \o FocusCalls(type, target, k - 1)

\* The listener calls of focus moving from one element to another.
FocusMoveCalls(from, to) ==
    Flatten([i \in 1..Len(FocusListeners(from)) |->
                FocusCalls("focusout", from, focusL[FocusListeners(from)[i]])])
    \o Flatten([i \in 1..Len(FocusListeners(to)) |->
                FocusCalls("focusin", to, focusL[FocusListeners(to)[i]])])

RECURSIVE RunFocusCalls(_, _)
RunFocusCalls(d, calls) ==
    IF calls = << >> THEN d
    ELSE RunFocusCalls(onFocus(d, Head(calls).ev), Tail(calls))

\* link.focus(): nothing when the link has the focus; otherwise the focus
\* moves and the focusout and focusin listeners run before focus() returns.
focus(d, link, act) ==
    IF link = act THEN d ELSE RunFocusCalls(d, FocusMoveCalls(act, link))

\* onTouchLink, the child menu is collapsed: expand it.
touchExpand(d, event, act) ==
    LET link     == event.target
        menuItem == parentNode(link)
        d0       == focus(d, link, act)
        siblings == getSiblings(menuItem)
        parents  == getParents(event)
        d1 == [d0 EXCEPT !.cls = (@ \ Range(siblings)) \cup Range(parents)]
    IN  Result(IF isMode(options, "button")
               THEN ChangeEach(changeButtonAttributes(d1, event), parents)
               ELSE d1,
               TRUE, link)

\* A collapse that leaves the toggle button as it is.
touchCollapseStale(d, event, act) ==
    Result([d EXCEPT !.cls = @ \ {parentNode(event.target)}], TRUE, act)

\* onTouchLink, the child menu is expanded and the link is not focused:
\* collapse it.
touchCollapse(d, event, act) ==
    LET menuItem == parentNode(event.target)
        d1 == [d EXCEPT !.cls = @ \ {menuItem}]
    IN  Result(IF isMode(options, "button")
               THEN changeButtonAttributes(d1, event) ELSE d1,
               TRUE, act)

\* An onTouchLink that does not look at document.activeElement.
onTouchLinkAnyFocus(d, event, act) ==
    IF parentNode(event.target) \notin d.cls
    THEN touchExpand(d, event, act)
    ELSE touchCollapse(d, event, act)

onTouchLink(d, event, act) ==
    LET link     == event.target
        menuItem == parentNode(link)
    IN  IF menuItem \notin d.cls THEN touchExpand(d, event, act)
        ELSE IF link # act THEN touchCollapse(d, event, act)
        ELSE Result(d, FALSE, act)

\* menu.querySelectorAll( '.' + classExpanded )
ExpandedIn(d, menu) ==
    SelectSeq(Descendants(menu), LAMBDA n : InDocument(n) /\ n \in d.cls)

RECURSIVE CollapseEach(_, _)
CollapseEach(d, items) ==
    IF items = << >> THEN d
    ELSE LET d1 == [d EXCEPT !.cls = @ \ {Head(items)}]
         IN  CollapseEach(IF isMode(options, "button")
                          THEN changeButtonAttributes(d1, Node(Head(items)))
                          ELSE d1,
                          Tail(items))

RECURSIVE CollapseMenus(_, _)
CollapseMenus(d, ms) ==
    IF ms = << >> THEN d
    ELSE CollapseMenus(CollapseEach(d, ExpandedIn(d, Head(ms))), Tail(ms))

\* An onKeyESC that collapses the first menu only.
onKeyESCFirstMenu(d, event) ==
    IF event.keyCode = KeyEsc
    THEN CollapseMenus(d, SubSeq(getMenus(options, menus), 1, 1))
    ELSE d

onKeyESC(d, event) ==
    IF event.keyCode = KeyEsc
    THEN CollapseMenus(d, getMenus(options, menus))
    ELSE d

-----------------------------------------------------------------------------
(* Configurations and the initial state: the document is loaded, the       *)
(* script has not run.                                                      *)

ButtonAttsStatic ==
    [n \in {"class", "aria-label"} |->
        IF n = "class" THEN Str("button-toggle-sub-menu") ELSE Str("Toggle child menu")]

ButtonAttsPreset ==
    [n \in {"class", "aria-label", "aria-expanded"} |->
        IF n = "class" THEN Str("button-toggle-sub-menu")
        ELSE IF n = "aria-label" THEN Obj(LabelCollapse, LabelExpand)
        ELSE Str("true")]

ButtonAttsEmpty == [n \in {} |-> Str("")]

Config(mode, atts) ==
    [id \in {"mode", "button_attributes"} |-> IF id = "mode" THEN mode ELSE atts]

\* The browsers and configurations checked: whether events carry
\* event.path, and the configuration object.
Setups ==
    {<<FALSE, Config(AllModes, ButtonAttsDefault)>>,
     <<TRUE,  Config(AllModes, ButtonAttsDefault)>>,
     <<FALSE, Config(AllModes \ {"tab"}, ButtonAttsDefault)>>,
     <<FALSE, Config(AllModes \ {"button"}, ButtonAttsDefault)>>,
     <<FALSE, Config(AllModes, ButtonAttsEmpty)>>}

\* The button attributes checked with every mode enabled.
ButtonAttsSetups ==
    {<<FALSE, Config(AllModes, ButtonAttsDefault)>>,
     <<FALSE, Config(AllModes, ButtonAttsStatic)>>,
     <<FALSE, Config(AllModes, ButtonAttsPreset)>>,
     <<FALSE, Config(AllModes, ButtonAttsEmpty)>>,
     <<FALSE, Config(AllModes \ {"button"}, ButtonAttsPreset)>>}

\* The setups checked with the history of touches kept.
TouchSetups ==
    {<<FALSE, Config(AllModes, ButtonAttsDefault)>>,
     <<TRUE,  Config(AllModes, ButtonAttsDefault)>>,
     <<FALSE, Config(AllModes \ {"tab"}, ButtonAttsDefault)>>}

\* A configuration object with the one key id.
ConfigOf(id, v) == [k \in {id} |-> v]

\* The configuration objects checked for what init makes of them: none
\* (the empty object), a menu selector that matches nothing or is empty, an
\* expanded class that is empty, that sanitisation empties, that
\* sanitisation shortens, or that is a number, and a key that is no option.
ConfigSetups ==
    {<<FALSE, [k \in {} |-> Str("")]>>,
     <<FALSE, ConfigOf("menu_selector", "#no-such-menu")>>,
     <<FALSE, ConfigOf("menu_selector", "")>>,
     <<FALSE, ConfigOf("expanded_class", Str(<< >>))>>,
     <<FALSE, ConfigOf("expanded_class", Str(<<"!", ".">>))>>,
     <<FALSE, ConfigOf("expanded_class", Str(<<"i", "s", " ", "o", "n", "!">>))>>,
     <<FALSE, ConfigOf("expanded_class", Num(1))>>,
     <<FALSE, ConfigOf("theme", Str("dark"))>>}

\* The mode arrays checked: every mode, each mode left out, one mode alone.
ModeSetups ==
    {<<FALSE, Config(AllModes, ButtonAttsDefault)>>,
     <<FALSE, Config(AllModes \ {"tab"}, ButtonAttsDefault)>>,
     <<FALSE, Config(AllModes \ {"esc"}, ButtonAttsDefault)>>,
     <<FALSE, Config(AllModes \ {"touch"}, ButtonAttsDefault)>>,
     <<FALSE, Config(AllModes \ {"button"}, ButtonAttsDefault)>>,
     <<FALSE, Config({"touch"}, ButtonAttsDefault)>>}

\* The longest expanded class checked character by character.
MaxClassLen == 2

\* Characters of a supplied expanded class: a letter of each case, a
\* digit, the hyphen, the underscore, and the space and the dot that the
\* sanitisation removes.
ClassAlphabet == {"a", "Z", "7", "-", "_", " ", "."}

ClassStrings == UNION {[1..n -> ClassAlphabet] : n \in 0..MaxClassLen}

\* The configuration objects checked for what setOptions stores: every
\* expanded class up to the length, with each of two menu selectors that
\* match the containers of the page and the child menu selector.
ClassSetups ==
    {<<FALSE, [k \in {"expanded_class", "menu_selector", "child_menu_selector"} |->
                 CASE k = "expanded_class" -> Str(c)
                   [] k = "menu_selector"  -> m
                   [] OTHER                -> SelChild]>> :
        c \in ClassStrings, m \in {SelMenu, SelMenu06}}

NoCall ==
    [h |-> "none", type |-> "", target |-> NULL, keyCode |-> 0,
     prevented |-> FALSE, wasExpanded |-> FALSE, wasActive |-> FALSE]

\* The longest run of touches hist keeps.
HistLen == 2

InitPage ==
    /\ options = OptionsDefault
    /\ menus = << >>
    /\ haspopup = {}
    /\ btnCount = [s \in ChildMenus |-> 0]
    /\ touchL = [l \in Links |-> 0]
    /\ focusL = [m \in MenuNodes |-> 0]
    /\ escL = 0
    /\ clickL = [b \in Buttons |-> 0]
    /\ cls = {}
    /\ expanded = [b \in Buttons |-> NULL]
    /\ label = [b \in Buttons |-> NULL]
    /\ active = "body"
    /\ queue = << >>
    /\ prevented = FALSE
    /\ last = NoCall
    /\ inited = FALSE
    /\ error = NULL
    /\ hist = << >>

\* The page load: document.readyState, whether DOMContentLoaded has fired
\* (dcl), whether the script has been evaluated, the DOMContentLoaded
\* listeners it registered (domL) and the init calls made (inits).
BootLoading ==
    [readyState |-> "loading", dcl |-> FALSE, script |-> FALSE, domL |-> 0, inits |-> 0]

\* The document is loaded and the script is at the init call of the else
\* branch of its last statement.
BootLoaded ==
    [readyState |-> "complete", dcl |-> TRUE, script |-> TRUE, domL |-> 0, inits |-> 0]

InitSetup(setups, trk) ==
    /\ version = "1.0.0"
    /\ boot = BootLoaded
    /\ \E su \in setups : hasPath = su[1] /\ config = su[2]
    /\ track = trk
    /\ InitPage

Init == InitSetup(Setups, FALSE)

InitButtonAtts == InitSetup(ButtonAttsSetups, FALSE)

InitTouch == InitSetup(TouchSetups, TRUE)

InitConfig == InitSetup(ConfigSetups, FALSE)

InitModes == InitSetup(ModeSetups, FALSE)

InitClass == InitSetup(ClassSetups, FALSE)

-----------------------------------------------------------------------------
(* init                                                                    *)

\* Loops that end with the first menu.
InitVisitsFirstMenu(opts, ms) ==
    {v \in {Head(ms)} \X ChildMenus :
        v[2] \in Range(querySelectorAll(v[1], opts.child_menu_selector, {},
                                        [s \in ChildMenus |-> 0]))}

\* The ( menu, child menu ) pairs the two forEach loops of init visit.
InitVisits(opts, ms) ==
    {v \in Range(ms) \X ChildMenus :
        v[2] \in Range(querySelectorAll(v[1], opts.child_menu_selector, {},
                                        [s \in ChildMenus |-> 0]))}

\* A guard that does not look at the expanded class.
initReturnsAnyClass(opts, ms) == ms = << >>

\* init returns before its loops: no menu to process, or no expanded class.
initReturns(opts, ms) == ms = << >> \/ opts.expanded_class = << >>

initRun ==
    /\ LET opts   == setOptions(config)
           ms     == getMenus(opts, << >>)
           visits == InitVisits(opts, ms)
           button == getButton(opts)
           count  == [s \in ChildMenus |-> Cardinality({v \in visits : v[2] = s})]
       IN  /\ options' = opts
           /\ menus' = ms
           /\ IF initReturns(opts, ms)
              THEN UNCHANGED <<haspopup, btnCount, touchL, focusL, escL, clickL,
                               expanded, label>>
              ELSE /\ haspopup' = {parentNode(v[2]) : v \in visits}
                   /\ btnCount' = [s \in ChildMenus |->
                                      IF button.null THEN 0 ELSE count[s]]
                   /\ clickL' = [b \in Buttons |->
                                    IF button.null THEN 0 ELSE count[ChildMenuOf(b)]]
                   /\ expanded' = [b \in Buttons |->
                                      IF button.null \/ count[ChildMenuOf(b)] = 0
                                      THEN NULL ELSE button.expanded]
                   /\ label' = [b \in Buttons |->
                                   IF button.null \/ count[ChildMenuOf(b)] = 0
                                   THEN NULL ELSE button.label]
                   /\ touchL' = [l \in Links |->
                                    IF isMode(opts, "touch")
                                    THEN Cardinality({v \in visits :
                                            querySelector(parentNode(v[2]), SelHref, {},
                                                          [s \in ChildMenus |-> 0]) = l})
                                    ELSE 0]
                   /\ focusL' = [m \in MenuNodes |->
                                    IF isMode(opts, "tab") /\ \E v \in visits : v[1] = m
                                    THEN 1 ELSE 0]
                   /\ escL' = IF isMode(opts, "esc")
                              THEN Cardinality({v[1] : v \in visits}) ELSE 0
    /\ error' = NULL

\* The first init call of the page load.
initFirst ==
    /\ inited' = TRUE
    /\ IF setOptionsThrows(config)
       THEN /\ error' = "TypeError"
            /\ UNCHANGED <<options, menus, haspopup, btnCount, touchL, focusL,
                           escL, clickL, expanded, label>>
       ELSE initRun
    /\ last' = [NoCall EXCEPT !.h = "init"]
    /\ UNCHANGED <<version, config, hasPath, cls, active, queue, prevented,
                   track, hist>>

\* a11yMenu.init( options ) is called with the page load at b.  The call
\* is counted; what a call after the first would do to the page is left
\* out, as the script never makes one.
initCalled(b) ==
    /\ boot' = [b EXCEPT !.inits = @ + 1]
    /\ IF inited
       THEN UNCHANGED <<version, config, hasPath, options, menus, haspopup,
                        btnCount, touchL, focusL, escL, clickL, cls, expanded,
                        label, active, queue, prevented, last, inited, error,
                        track, hist>>
       ELSE initFirst

\* The script, evaluated on the loaded document, calls init.
init ==
    /\ ~inited
    /\ initCalled(boot)

-----------------------------------------------------------------------------
(* The browser: it dispatches an event to the listeners init registered,   *)
(* in order, and then performs the event's default action.                 *)

D == [cls |-> cls, expanded |-> expanded, label |-> label]

Idle == inited /\ queue = << >>

\* k calls of handler h for event ev
RECURSIVE Calls(_, _, _)
Calls(h, ev, k) ==
    IF k = 0 THEN << >> ELSE <<[h |-> h, ev |-> ev]>> \o Calls(h, ev, k - 1)

Focusable == {n \in HrefLinks \cup Buttons : InDocument(n)} \cup {"body"}

\* The number of key codes checked besides Enter, Space and Escape.
MaxOtherKeys == 1

\* The Tab key and the key codes after it.
OtherKeys == 9..(8 + MaxOtherKeys)

KeyCodes == {KeyEnter, KeySpace, KeyEsc} \cup OtherKeys

ResetHist == hist' = IF track THEN << >> ELSE hist

\* The user moves the focus (Tab key, mouse): focusout on the element that
\* had it, focusin on the element that gets it.
FocusMove(to) ==
    /\ Idle
    /\ to \in Focusable
    /\ to # active
    /\ active' = to
    /\ queue' = FocusMoveCalls(active, to)
    /\ prevented' = FALSE
    /\ ResetHist
    /\ last' = NoCall
    /\ UNCHANGED <<pageVars, cls, expanded, label>>

\* The user presses the mouse button on a toggle button.
MouseDown(b) ==
    /\ Idle
    /\ b \in Buttons
    /\ InDocument(b)
    /\ queue' = Calls("onClickButton", Event("mousedown", b, 0), clickL[b])
                    \o Calls("default", Event("mousedown", b, 0), 1)
    /\ prevented' = FALSE
    /\ ResetHist
    /\ last' = NoCall
    /\ UNCHANGED <<pageVars, cls, expanded, label, active>>

\* The user releases a key: keyup on the focused element, bubbling to document.
KeyUp(k) ==
    /\ Idle
    /\ k \in KeyCodes
    /\ queue' = (IF active \in Buttons
                 THEN Calls("onClickButton", Event("keyup", active, k), clickL[active])
                 ELSE << >>)
                    \o Calls("onKeyESC", Event("keyup", active, k), escL)
    /\ prevented' = FALSE
    /\ ResetHist
    /\ last' = NoCall
    /\ UNCHANGED <<pageVars, cls, expanded, label, active>>

\* The user touches a link.
Touch(l) ==
    /\ Idle
    /\ l \in HrefLinks
    /\ queue' = Calls("onTouchLink", Event("touchstart", l, 0), touchL[l])
                    \o <<[h |-> "default", ev |-> Event("touchstart", l, 0),
                          wasExpanded |-> parentNode(l) \in cls]>>
    /\ prevented' = FALSE
    /\ last' = NoCall
    /\ UNCHANGED <<pageVars, cls, expanded, label, active, hist>>

Called(h) == queue # << >> /\ Head(queue).h = h

LastOf(call, p) ==
    [h |-> call.h, type |-> call.ev.type, target |-> call.ev.target,
     keyCode |-> call.ev.keyCode, prevented |-> p,
     wasExpanded |-> parentNode(call.ev.target) \in cls,
     wasActive |-> call.ev.target = active]

SetPage(d) ==
    /\ cls' = d.cls
    /\ expanded' = d.expanded
    /\ label' = d.label

OnFocusCall ==
    /\ Called("onFocus")
    /\ SetPage(onFocus(D, Head(queue).ev))
    /\ queue' = Tail(queue)
    /\ last' = LastOf(Head(queue), FALSE)
    /\ UNCHANGED <<pageVars, active, prevented, hist>>

OnClickButtonCall ==
    /\ Called("onClickButton")
    /\ LET r == onClickButton(D, Head(queue).ev, active)
       IN  /\ SetPage(r.d)
           /\ prevented' = (prevented \/ r.prevented)
           /\ last' = LastOf(Head(queue), r.prevented)
    /\ queue' = Tail(queue)
    /\ UNCHANGED <<pageVars, active, hist>>

OnTouchLinkCall ==
    /\ Called("onTouchLink")
    /\ LET r == onTouchLink(D, Head(queue).ev, active)
       IN  /\ SetPage(r.d)
           /\ active' = r.active
           /\ prevented' = (prevented \/ r.prevented)
           /\ last' = LastOf(Head(queue), r.prevented)
    /\ queue' = Tail(queue)
    /\ UNCHANGED <<pageVars, hist>>

OnKeyESCCall ==
    /\ Called("onKeyESC")
    /\ SetPage(onKeyESC(D, Head(queue).ev))
    /\ queue' = Tail(queue)
    /\ last' = LastOf(Head(queue), FALSE)
    /\ UNCHANGED <<pageVars, active, prevented, hist>>

\* After the listeners: an unprevented mousedown moves the focus to the
\* button; an unprevented touchstart goes on to the link's click.
DefaultAction ==
    /\ Called("default")
    /\ LET ev == Head(queue).ev
       IN  /\ IF ev.type = "mousedown" /\ ~prevented /\ active # ev.target
              THEN /\ active' = ev.target
                   /\ queue' = FocusMoveCalls(active, ev.target)
              ELSE /\ active' = active
                   /\ queue' = Tail(queue)
           /\ last' = [LastOf(Head(queue), prevented) EXCEPT
                          !.wasExpanded = IF ev.type = "touchstart"
                                          THEN Head(queue).wasExpanded ELSE @]
           /\ hist' = IF track /\ ev.type = "touchstart"
                      THEN LET h == Append(hist, [link |-> ev.target,
                                                  prevented |-> prevented,
                                                  wasExpanded |-> Head(queue).wasExpanded,
                                                  isExpanded |-> parentNode(ev.target) \in cls])
                           IN  IF Len(h) > HistLen THEN Tail(h) ELSE h
                      ELSE hist
    /\ UNCHANGED <<pageVars, cls, expanded, label, prevented>>

Next ==
    \/ init
    \/ \E to \in Elements : FocusMove(to)
    \/ \E b \in Buttons : MouseDown(b)
    \/ \E k \in KeyCodes : KeyUp(k)
    \/ \E l \in HrefLinks : Touch(l)
    \/ OnFocusCall
    \/ OnClickButtonCall
    \/ OnTouchLinkCall
    \/ OnKeyESCCall
    \/ DefaultAction

Spec == Init /\ [][Next]_vars

\* The script under each kind of button attributes.
SpecButtonAtts == InitButtonAtts /\ [][Next]_vars

\* The script with the run of consecutive touches recorded in hist.
SpecTouch == InitTouch /\ [][Next]_vars

\* The script under each kind of configuration object.
SpecConfig == InitConfig /\ [][Next]_vars

\* The script under each mode array.
SpecModes == InitModes /\ [][Next]_vars

\* The user only moves the focus.
NextFocus ==
    \/ init
    \/ \E to \in Elements : FocusMove(to)
    \/ OnFocusCall

\* The script when focus moves are the only events.
SpecFocus == Init /\ [][NextFocus]_vars

\* The script under each supplied expanded class, driven by focus moves.
SpecClass == InitClass /\ [][NextFocus]_vars

-----------------------------------------------------------------------------
(* The page load.  The document is being parsed (readyState 'loading'),    *)
(* then parsed ('interactive'), then DOMContentLoaded fires, then the page *)
(* is loaded ('complete').  The browser evaluates the script once, at any  *)
(* of these points (in the head, deferred, async or inserted later), and   *)
(* the user may use the page at any of them.  Scripts and listener calls   *)
(* run one at a time, each to its end.                                     *)

\* A bootstrap that never waits for the document.
bootDefersNever(readyState) == FALSE

\* 'loading' === document.readyState
bootDefers(readyState) == readyState = "loading"

\* All of the state but the page load.
pageState == <<version, config, hasPath, options, menus, haspopup, btnCount,
               touchL, focusL, escL, clickL, cls, expanded, label, active,
               queue, prevented, last, inited, error, track, hist>>

\* The browser is not in the middle of a dispatch.
BrowserIdle == queue = << >>

\* The browser evaluates the script: its last statement registers init for
\* DOMContentLoaded or calls it.
RunScript ==
    /\ BrowserIdle
    /\ ~boot.script
    /\ IF bootDefers(boot.readyState)
       THEN /\ boot' = [boot EXCEPT !.script = TRUE, !.domL = @ + 1]
            /\ UNCHANGED pageState
       ELSE initCalled([boot EXCEPT !.script = TRUE])

\* The parser reaches the end of the document.
Parsed ==
    /\ BrowserIdle
    /\ boot.readyState = "loading"
    /\ boot' = [boot EXCEPT !.readyState = "interactive"]
    /\ UNCHANGED pageState

\* DOMContentLoaded fires: the listener the script registered, if it did,
\* calls init.
DOMContentLoaded ==
    /\ BrowserIdle
    /\ boot.readyState = "interactive" /\ ~boot.dcl
    /\ IF boot.domL > 0
       THEN initCalled([boot EXCEPT !.dcl = TRUE])
       ELSE /\ boot' = [boot EXCEPT !.dcl = TRUE]
            /\ UNCHANGED pageState

\* The page and its resources are loaded.
Load ==
    /\ BrowserIdle
    /\ boot.readyState = "interactive" /\ boot.dcl
    /\ boot' = [boot EXCEPT !.readyState = "complete"]
    /\ UNCHANGED pageState

\* The user's events before init has run: they are dispatched to the
\* listeners registered so far.
EarlyFocusMove(to) ==
    /\ ~inited /\ BrowserIdle
    /\ to \in Focusable
    /\ to # active
    /\ active' = to
    /\ queue' = FocusMoveCalls(active, to)
    /\ prevented' = FALSE
    /\ last' = NoCall
    /\ UNCHANGED <<pageVars, cls, expanded, label, hist>>

EarlyKeyUp(k) ==
    /\ ~inited /\ BrowserIdle
    /\ k \in KeyCodes
    /\ queue' = (IF active \in Buttons
                 THEN Calls("onClickButton", Event("keyup", active, k), clickL[active])
                 ELSE << >>)
                    \o Calls("onKeyESC", Event("keyup", active, k), escL)
    /\ prevented' = FALSE
    /\ last' = NoCall
    /\ UNCHANGED <<pageVars, cls, expanded, label, active, hist>>

EarlyTouch(l) ==
    /\ ~inited /\ BrowserIdle
    /\ l \in HrefLinks
    /\ queue' = Calls("onTouchLink", Event("touchstart", l, 0), touchL[l])
                    \o <<[h |-> "default", ev |-> Event("touchstart", l, 0),
                          wasExpanded |-> parentNode(l) \in cls]>>
    /\ prevented' = FALSE
    /\ last' = NoCall
    /\ UNCHANGED <<pageVars, cls, expanded, label, active, hist>>

\* The page load starts: the default configuration, nothing run yet.
InitBoot ==
    /\ version = "1.0.0"
    /\ hasPath = FALSE
    /\ config = Config(AllModes, ButtonAttsDefault)
    /\ track = FALSE
    /\ boot = BootLoading
    /\ InitPage

\* The browser runs the listener calls of a dispatch to the end.
Dispatch ==
    OnFocusCall \/ OnClickButtonCall \/ OnTouchLinkCall \/ OnKeyESCCall \/ DefaultAction

NextBoot ==
    \/ RunScript
    \/ Parsed
    \/ DOMContentLoaded
    \/ Load
    \/ \E to \in Elements : EarlyFocusMove(to)
    \/ \E k \in KeyCodes : EarlyKeyUp(k)
    \/ \E l \in HrefLinks : EarlyTouch(l)
    \/ \E to \in Elements : FocusMove(to)
    \/ \E k \in KeyCodes : KeyUp(k)
    \/ OnFocusCall
    \/ OnClickButtonCall
    \/ OnKeyESCCall
    \/ DefaultAction

\* The page load.  The browser ends every dispatch it starts, and gets to
\* every task of the page load however many events the user causes.
SpecBoot ==
    /\ InitBoot /\ [][NextBoot]_vars
    /\ WF_vars(Dispatch)
    /\ SF_vars(RunScript) /\ SF_vars(Parsed) /\ SF_vars(DOMContentLoaded)

-----------------------------------------------------------------------------
(* The scripts before 1.0.0 (0.0.6: lines 13-490, 0.0.7: lines 1550-2023,  *)
(* 0.0.9: lines 517-993).  They have no modes; the toggle buttons are      *)
(* found again by the button selector option; onClick listens to           *)
(* mousedown, onKeydown to keydown on the document, onTouch to touchstart. *)
(* A handler works on the page state d with the exception it ended with    *)
(* (d.error).  getParents, getSiblings and the menu array are those of     *)
(* 1.0.0.                                                                  *)

OldVersions == {"0.0.6", "0.0.7", "0.0.9"}

ArgIds == {"button_attributes", "button_selector", "child_menu_selector",
           "expanded_class", "menu_selector"}

\* The key of an option in the configuration object: 0.0.6 spells the
\* keys with hyphens.
KeyOf(v, id) ==
    IF v # "0.0.6" THEN id
    ELSE CASE id = "button_attributes"   -> "button-attributes"
           [] id = "button_selector"     -> "button-selector"
           [] id = "child_menu_selector" -> "child-menu-selector"
           [] id = "expanded_class"      -> "expanded-class"
           [] id = "menu_selector"       -> "menu-selector"

ArgsDefault(v) ==
    [button_attributes   |-> ButtonAttsDefault,
     button_selector     |-> SelButton,
     child_menu_selector |-> SelChild,
     expanded_class      |-> ClassDefault,
     menu_selector       |-> IF v = "0.0.6" THEN SelMenu06 ELSE SelMenu]

setArgsThrows(v, cfg) ==
    KeyOf(v, "expanded_class") \in DOMAIN cfg
        /\ cfg[KeyOf(v, "expanded_class")].t # "string"

\* setArgs (setOptions in 0.0.9)
setArgs(v, cfg) ==
    [id \in ArgIds |->
        IF KeyOf(v, id) \in DOMAIN cfg
        THEN IF id = "expanded_class" THEN SanitizeClass(cfg[KeyOf(v, id)].s)
             ELSE cfg[KeyOf(v, id)]
        ELSE ArgsDefault(v)[id]]

\* getArg of 0.0.6: the value when it is a string, else the empty string.
getArg(val) == IF val.t = "string" THEN val ELSE Str("")

\* value[ key ] of an option value is neither null nor undefined.
HasKey(val, key) == val.t = "object" /\ val[key] # NULL

\* getButton before 1.0.0: undefined (null here) for empty attributes.
getButtonOld(opts) ==
    LET atts == opts.button_attributes
        set  == {n \in DOMAIN atts : n \in AllowedAtts \/ n \in AriaDataAtts}
    IN  IF DOMAIN atts = {}
        THEN [null |-> TRUE, expanded |-> NULL, label |-> NULL]
        ELSE [null     |-> FALSE,
              expanded |-> IF "aria-expanded" \in set
                           THEN AttrString(atts["aria-expanded"]) ELSE "false",
              label    |-> IF "aria-label" \in DOMAIN atts
                              /\ atts["aria-label"].t = "object"
                           THEN atts["aria-label"].expand
                           ELSE IF "aria-label" \in set
                           THEN AttrString(atts["aria-label"]) ELSE NULL]

\* menuItem.querySelector( '' ) ends changeButtonAttributes with a
\* SyntaxError.
changeButtonAttributesThrows(eventOrNode) ==
    /\ options.button_selector = ""
    /\ (IF eventOrNode.nodeType = 1 THEN eventOrNode.node
        ELSE parentNode(eventOrNode.target)) # NULL

\* changeButtonAttributes before 1.0.0, for a button selector that is not
\* empty.
changeButtonAttributesOld(d, eventOrNode) ==
    LET menuItem == IF eventOrNode.nodeType = 1 THEN eventOrNode.node
                    ELSE parentNode(eventOrNode.target)
        button == IF menuItem # NULL
                  THEN querySelector(menuItem, options.button_selector, haspopup, btnCount)
                  ELSE NULL
        isExpanded  == menuItem \in d.cls
        buttonLabel == IF version = "0.0.6" THEN getArg(LabelOption(options))
                       ELSE LabelOption(options)
        dynamic == CASE version = "0.0.6" -> TRUE
                     [] version = "0.0.7" -> buttonLabel.t = "object"
                     [] OTHER             -> buttonLabel.t # "string"
    IN  IF button = NULL THEN d
        ELSE [d EXCEPT
                !.label[button] =
                    IF dynamic
                    THEN IF isExpanded /\ HasKey(buttonLabel, "collapse")
                         THEN buttonLabel.collapse
                         ELSE IF ~isExpanded /\ HasKey(buttonLabel, "expand")
                         THEN buttonLabel.expand
                         ELSE @
                    ELSE @,
                !.expanded[button] = BoolToString(isExpanded)]

\* The next statement of a handler is a changeButtonAttributes call: it is
\* not reached after an exception, and it may end with one.
Change(d, eventOrNode) ==
    IF d.error # NULL THEN d
    ELSE IF changeButtonAttributesThrows(eventOrNode)
         THEN [d EXCEPT !.error = "SyntaxError"]
         ELSE changeButtonAttributesOld(d, eventOrNode)

RECURSIVE ChangeEachOld(_, _)
ChangeEachOld(d, items) ==
    IF items = << >> THEN d
    ELSE ChangeEachOld(Change(d, Node(Head(items))), Tail(items))

\* onFocus before 1.0.0; 0.0.9 also updates the buttons of the parents.
\* An exception of an earlier listener call of the same dispatch is kept.
onFocusOld(d, event) ==
    LET parents == getParents(event)
        d1 == [d EXCEPT !.cls = IF event.type = "focusin"
                                THEN @ \cup Range(parents)
                                ELSE @ \ Range(parents),
                        !.error = NULL]
        d2 == Change(d1, event)
        d3 == IF version = "0.0.9" THEN ChangeEachOld(d2, parents) ELSE d2
    IN  [d3 EXCEPT !.error = IF d.error # NULL THEN d.error ELSE @]

\* onClick: it does not prevent the default action of the mousedown.
onClick(d, event, act) ==
    LET menuItem == parentNode(event.target)
        siblings == getSiblings(menuItem)
    IN  Result(Change(toggleClass(d, menuItem, siblings), event), FALSE, act)

RECURSIVE RunFocusCallsOld(_, _)
RunFocusCallsOld(d, calls) ==
    IF calls = << >> THEN d
    ELSE RunFocusCallsOld(onFocusOld(d, Head(calls).ev), Tail(calls))

\* link.focus() before 1.0.0
focusOld(d, link, act) ==
    IF link = act THEN d ELSE RunFocusCallsOld(d, FocusMoveCalls(act, link))

onTouch(d, event, act) ==
    LET link     == event.target
        menuItem == parentNode(link)
        d1 == [d EXCEPT !.cls = @ \ {menuItem}]
    IN  IF menuItem \notin d.cls
        THEN Result(focusOld(d, link, act), TRUE, link)
        ELSE IF link # act
        THEN Result(IF version = "0.0.6" THEN d1 ELSE Change(d1, event), TRUE, act)
        ELSE Result(d, FALSE, act)

RECURSIVE CollapseEachOld(_, _)
CollapseEachOld(d, items) ==
    IF items = << >> \/ d.error # NULL THEN d
    ELSE CollapseEachOld(Change([d EXCEPT !.cls = @ \ {Head(items)}], Node(Head(items))),
                         Tail(items))

RECURSIVE CollapseMenusOld(_, _)
CollapseMenusOld(d, ms) ==
    IF ms = << >> \/ d.error # NULL THEN d
    ELSE CollapseMenusOld(CollapseEachOld(d, ExpandedIn(d, Head(ms))), Tail(ms))

onKeydown(d, event) ==
    IF event.keyCode = KeyEsc
    THEN CollapseMenusOld(d, getMenus(options, menus))
    ELSE d

\* A configuration object with the one option id, under the key the
\* version reads.
ConfigOld(v, id, val) == [k \in {KeyOf(v, id)} |-> val]

\* The versions and configuration objects checked: none, empty button
\* attributes, an empty button selector.
OldSetups ==
    UNION {{<<v, FALSE, [k \in {} |-> Str("")]>>,
            <<v, FALSE, ConfigOld(v, "button_attributes", ButtonAttsEmpty)>>,
            <<v, FALSE, ConfigOld(v, "button_selector", "")>>} : v \in OldVersions}
        \cup {<<"0.0.9", TRUE, [k \in {} |-> Str("")]>>}

InitOld ==
    /\ \E su \in OldSetups : version = su[1] /\ hasPath = su[2] /\ config = su[3]
    /\ boot = BootLoaded
    /\ track = FALSE
    /\ InitPage

\* init before 1.0.0: button.cloneNode() ends it with a TypeError at the
\* first child menu when getButton returned no button.
initOldRun ==
    LET opts   == setArgs(version, config)
        ms     == getMenus(opts, << >>)
        visits == InitVisits(opts, ms)
        button == getButtonOld(opts)
        count  == [s \in ChildMenus |-> Cardinality({v \in visits : v[2] = s})]
    IN  /\ options' = opts
        /\ menus' = ms
        /\ IF initReturns(opts, ms) \/ visits = {}
           THEN /\ error' = NULL
                /\ UNCHANGED <<haspopup, btnCount, touchL, focusL, escL, clickL,
                               expanded, label>>
           ELSE IF button.null
           THEN /\ error' = "TypeError"
                /\ UNCHANGED <<haspopup, btnCount, touchL, focusL, escL, clickL,
                               expanded, label>>
           ELSE /\ error' = NULL
                /\ haspopup' = {parentNode(v[2]) : v \in visits}
                /\ btnCount' = count
                /\ expanded' = [b \in Buttons |->
                                   IF count[ChildMenuOf(b)] = 0 THEN NULL
                                   ELSE button.expanded]
                /\ label' = [b \in Buttons |->
                                IF count[ChildMenuOf(b)] = 0 THEN NULL
                                ELSE button.label]
                /\ touchL' = [l \in Links |->
                                 Cardinality({v \in visits :
                                     querySelector(parentNode(v[2]), SelHref, {},
                                                   [s \in ChildMenus |-> 0]) = l})]
                /\ focusL' = [m \in MenuNodes |->
                                 IF \E v \in visits : v[1] = m THEN 1 ELSE 0]
                /\ clickL' = [b \in Buttons |->
                                 IF opts.button_selector # ""
                                    /\ Matches(b, opts.button_selector, {}, count)
                                 THEN 1 ELSE 0]
                /\ escL' = Cardinality({v[1] : v \in visits})

initOld ==
    /\ ~inited
    /\ inited' = TRUE
    /\ IF setArgsThrows(version, config)
       THEN /\ error' = "TypeError"
            /\ UNCHANGED <<options, menus, haspopup, btnCount, touchL, focusL,
                           escL, clickL, expanded, label>>
       ELSE initOldRun
    /\ last' = [NoCall EXCEPT !.h = "init"]
    /\ boot' = [boot EXCEPT !.inits = @ + 1]
    /\ UNCHANGED <<version, config, hasPath, cls, active, queue, prevented,
                   track, hist>>

\* The page state with no exception yet.
DOld == [cls |-> cls, expanded |-> expanded, label |-> label, error |-> NULL]

\* The user presses the mouse button on a toggle button.
MouseDownOld(b) ==
    /\ Idle
    /\ b \in Buttons
    /\ InDocument(b)
    /\ queue' = Calls("onClick", Event("mousedown", b, 0), clickL[b])
                    \o Calls("default", Event("mousedown", b, 0), 1)
    /\ prevented' = FALSE
    /\ ResetHist
    /\ last' = NoCall
    /\ UNCHANGED <<pageVars, cls, expanded, label, active>>

\* The user presses a key: keydown on the focused element, bubbling to
\* document.
KeyDown(k) ==
    /\ Idle
    /\ k \in KeyCodes
    /\ queue' = Calls("onKeydown", Event("keydown", active, k), escL)
    /\ prevented' = FALSE
    /\ ResetHist
    /\ last' = NoCall
    /\ UNCHANGED <<pageVars, cls, expanded, label, active>>

\* The user touches a link.
TouchOld(l) ==
    /\ Idle
    /\ l \in HrefLinks
    /\ queue' = Calls("onTouch", Event("touchstart", l, 0), touchL[l])
                    \o <<[h |-> "default", ev |-> Event("touchstart", l, 0),
                          wasExpanded |-> parentNode(l) \in cls]>>
    /\ prevented' = FALSE
    /\ last' = NoCall
    /\ UNCHANGED <<pageVars, cls, expanded, label, active, hist>>

OnFocusOldCall ==
    /\ Called("onFocus")
    /\ LET d == onFocusOld(DOld, Head(queue).ev)
       IN  SetPage(d) /\ error' = d.error
    /\ queue' = Tail(queue)
    /\ last' = LastOf(Head(queue), FALSE)
    /\ UNCHANGED <<setupVars, active, prevented, hist>>

OnClickCall ==
    /\ Called("onClick")
    /\ LET r == onClick(DOld, Head(queue).ev, active)
       IN  /\ SetPage(r.d)
           /\ error' = r.d.error
           /\ prevented' = (prevented \/ r.prevented)
           /\ last' = LastOf(Head(queue), r.prevented)
    /\ queue' = Tail(queue)
    /\ UNCHANGED <<setupVars, active, hist>>

OnTouchCall ==
    /\ Called("onTouch")
    /\ LET r == onTouch(DOld, Head(queue).ev, active)
       IN  /\ SetPage(r.d)
           /\ error' = r.d.error
           /\ active' = r.active
           /\ prevented' = (prevented \/ r.prevented)
           /\ last' = LastOf(Head(queue), r.prevented)
    /\ queue' = Tail(queue)
    /\ UNCHANGED <<setupVars, hist>>

OnKeydownCall ==
    /\ Called("onKeydown")
    /\ LET d == onKeydown(DOld, Head(queue).ev)
       IN  SetPage(d) /\ error' = d.error
    /\ queue' = Tail(queue)
    /\ last' = LastOf(Head(queue), FALSE)
    /\ UNCHANGED <<setupVars, active, prevented, hist>>

NextOld ==
    \/ initOld
    \/ \E to \in Elements : FocusMove(to)
    \/ \E b \in Buttons : MouseDownOld(b)
    \/ \E k \in KeyCodes : KeyDown(k)
    \/ \E l \in HrefLinks : TouchOld(l)
    \/ OnFocusOldCall
    \/ OnClickCall
    \/ OnTouchCall
    \/ OnKeydownCall
    \/ DefaultAction

\* The scripts before 1.0.0.
SpecOld == InitOld /\ [][NextOld]_vars

\* Every version of the script, each on its own page load.
InitAll == Init \/ InitOld

\* The page runs the listeners of the script it loaded.
NextAll ==
    \/ version = "1.0.0" /\ init
    \/ version = "1.0.0" /\ \E b \in Buttons : MouseDown(b)
    \/ version = "1.0.0" /\ \E k \in KeyCodes : KeyUp(k)
    \/ version = "1.0.0" /\ \E l \in HrefLinks : Touch(l)
    \/ version = "1.0.0" /\ OnFocusCall
    \/ version = "1.0.0" /\ OnClickButtonCall
    \/ version = "1.0.0" /\ OnTouchLinkCall
    \/ version = "1.0.0" /\ OnKeyESCCall
    \/ version \in OldVersions /\ initOld
    \/ version \in OldVersions /\ \E b \in Buttons : MouseDownOld(b)
    \/ version \in OldVersions /\ \E k \in KeyCodes : KeyDown(k)
    \/ version \in OldVersions /\ \E l \in HrefLinks : TouchOld(l)
    \/ version \in OldVersions /\ OnFocusOldCall
    \/ version \in OldVersions /\ OnClickCall
    \/ version \in OldVersions /\ OnTouchCall
    \/ version \in OldVersions /\ OnKeydownCall
    \/ \E to \in Elements : FocusMove(to)
    \/ DefaultAction

SpecAll == InitAll /\ [][NextAll]_vars

-----------------------------------------------------------------------------
(* Properties                                                              *)

Handlers == {"onFocus", "onClickButton", "onTouchLink", "onKeyESC"}

\* A listener call has just returned.
HandlerReturned == last.h \in Handlers

\* The toggle buttons in the document.
InjectedButtons == {b \in Buttons : InDocument(b)}

\* The elements inside a menu container the script processes.
InsideMenus == UNION {Range(Descendants(m)) : m \in Range(menus)}

\* The elements on the way from n up to, and excluding, its menu container.
UpToMenu(n) == {e \in InsideMenus : e = n \/ n \in Range(Descendants(e))}

DefaultAtts == options.button_attributes = ButtonAttsDefault

\* C1: with all four modes enabled, once a handler has returned, every
\* injected toggle button has aria-expanded="true" exactly when its parent
\* menu item carries the expanded class.
C1_AriaMirrorsClass ==
    (options.mode = AllModes /\ HandlerReturned) =>
        \A b \in InjectedButtons : (expanded[b] = "true") <=> (parentNode(b) \in cls)

C3_EscResetsButtons ==
    (isMode(options, "button") /\ DefaultAtts
        /\ last.h = "onKeyESC" /\ last.keyCode = KeyEsc) =>
        \A b \in InjectedButtons : expanded[b] = "false" /\ label[b] = LabelExpand

\* C4: in tab mode, after onFocus has handled a focusin, every
\* aria-haspopup element on the way from the target up to the menu
\* container carries the expanded class and, in button mode, its toggle
\* button has aria-expanded="true".
C4_FocusinExpandsPath ==
    (last.h = "onFocus" /\ last.type = "focusin") =>
        \A e \in UpToMenu(last.target) \cap haspopup :
            /\ e \in cls
            /\ \A b \in InjectedButtons :
                   (isMode(options, "button") /\ parentNode(b) = e) => expanded[b] = "true"

\* C4 witness: focusin on the link of A1 was handled in button mode; A1 and
\* its ancestor A are expanded.
C4_Witness ==
    /\ last.h = "onFocus" /\ last.type = "focusin" /\ last.target = "aA1"
    /\ {"A", "A1"} \subseteq cls
    /\ expanded["bA"] = "true" /\ expanded["bA1"] = "true"

\* onClickButton has handled a mousedown or an Enter / Space keyup.
ButtonClicked ==
    /\ last.h = "onClickButton"
    /\ last.type = "mousedown" \/ last.keyCode \in {KeyEnter, KeySpace}

\* C5: onClickButton handling a mousedown, or a keyup with keyCode 13 or
\* 32, flips the expanded class of the button's parent menu item, and the
\* button's aria-expanded reflects the new state.
C5_ClickFlips ==
    ButtonClicked =>
        /\ (parentNode(last.target) \in cls) <=> ~last.wasExpanded
        /\ expanded[last.target] = BoolToString(parentNode(last.target) \in cls)

\* C5 witness: a Space keyup on the button of an expanded item collapsed it.
C5_Witness ==
    /\ ButtonClicked /\ last.type = "keyup" /\ last.keyCode = KeySpace
    /\ last.wasExpanded
    /\ parentNode(last.target) \notin cls

\* The state init leaves, before any event.
AfterInit == last.h = "init"

\* The child menus inside a processed menu.
ProcessedChildMenus == ChildMenus \cap InsideMenus

\* What C6 says of the child menu s.
ButtonInjected(s) ==
    /\ parentNode(s) \in haspopup
    /\ btnCount[s] = 1
    /\ \A b \in Buttons :
           ChildMenuOf(b) = s =>
               /\ expanded[b] = "false"
               /\ DefaultAtts => label[b] = LabelExpand

\* C6 as stated: after init with button mode enabled and non-empty
\* button_attributes, every child menu inside a processed menu has an
\* aria-haspopup parent and exactly one toggle button right before it, with
\* aria-expanded="false" and, by default, the 'expand' aria-label.
C6_AsStated ==
    (AfterInit /\ isMode(options, "button") /\ DOMAIN options.button_attributes # {}) =>
        \A s \in ProcessedChildMenus : ButtonInjected(s)

\* C6 as amended: the same, when button_attributes has no 'aria-expanded'
\* key of its own.
C6_ButtonInjected ==
    (AfterInit /\ isMode(options, "button") /\ DOMAIN options.button_attributes # {}
        /\ "aria-expanded" \notin DOMAIN options.button_attributes) =>
        \A s \in ProcessedChildMenus : ButtonInjected(s)

\* C6 witness: init has run with a static aria-label and inserted a button
\* before each of the four child menus.
C6_Witness ==
    /\ AfterInit /\ isMode(options, "button")
    /\ options.button_attributes = ButtonAttsStatic
    /\ ProcessedChildMenus = ChildMenus
    /\ \A s \in ChildMenus : btnCount[s] = 1

\* The menu item of the link a touch handler was called for.
TouchedItem == parentNode(last.target)

\* C7: after onTouchLink has handled a touch on the link of a menu item
\* that lacked the expanded class, the default action is prevented, the
\* item and its expandable ancestors carry the class and no expandable
\* sibling of the item carries it.
C7_TouchExpands ==
    (last.h = "onTouchLink" /\ ~last.wasExpanded) =>
        /\ last.prevented
        /\ TouchedItem \in cls
        /\ UpToMenu(TouchedItem) \cap haspopup \subseteq cls
        /\ \A sib \in Range(Kids(parentNode(TouchedItem))) \cap haspopup :
               sib # TouchedItem => sib \notin cls

\* C8: when onTouchLink handles a touch on the link of an expanded menu
\* item while the link is not the focused element, the default action is
\* prevented, the class leaves the item and, in button mode, the item's
\* button reads aria-expanded="false".
C8_TouchCollapses ==
    (last.h = "onTouchLink" /\ last.wasExpanded /\ ~last.wasActive) =>
        /\ last.prevented
        /\ TouchedItem \notin cls
        /\ \A b \in InjectedButtons :
               (isMode(options, "button") /\ parentNode(b) = TouchedItem)
                   => expanded[b] = "false"

\* C8 witness: P was expanded by its button, the focus elsewhere; a touch
\* on its link collapsed it.
C8_Witness ==
    /\ last.h = "onTouchLink" /\ last.wasExpanded /\ ~last.wasActive
    /\ last.target = "aP"
    /\ isMode(options, "button") /\ expanded["bP"] = "false"

\* C9: the touch handler leaves the default action alone if and only if
\* the touched link's parent item carries the expanded class and the link
\* is document.activeElement, and then it changes no class and no attribute.
C9_TouchPassesIffFocused ==
    [][OnTouchLinkCall =>
        /\ ~last'.prevented <=>
               (parentNode(Head(queue).ev.target) \in cls
                    /\ Head(queue).ev.target = active)
        /\ ~last'.prevented =>
               UNCHANGED <<cls, expanded, label, haspopup, btnCount, active>>]_vars

\* C9 witness: a touch handler returned without preventing the default.
C9_Witness ==
    /\ last.h = "onTouchLink" /\ ~last.prevented
    /\ last.target = "aP"
    /\ last.wasExpanded /\ last.wasActive

\* C10: for every link init attached the touch listener to, of two
\* consecutive touches on it that start from a collapsed item the first is
\* prevented and expands the item, and the second is not prevented.
C10_SecondTouchFollows ==
    (Len(hist) = 2 /\ hist[1].link = hist[2].link /\ touchL[hist[1].link] > 0
        /\ ~hist[1].wasExpanded) =>
        /\ hist[1].prevented
        /\ hist[1].isExpanded
        /\ ~hist[2].prevented

\* No element of the page matches the configured menu selector.
NoMenuMatches ==
    "menu_selector" \in DOMAIN config
        /\ \A n \in Elements :
               ~Matches(n, config["menu_selector"], {}, [s \in ChildMenus |-> 0])

\* The configured expanded class is a string without a character that
\* sanitisation keeps.
ClassEmpties ==
    "expanded_class" \in DOMAIN config
        /\ config["expanded_class"].t = "string"
        /\ \A i \in 1..Len(config["expanded_class"].s) :
               config["expanded_class"].s[i] \notin ClassChars

\* init has left the page as it was and has raised no error.
NothingDone ==
    /\ haspopup = {} /\ cls = {}
    /\ \A s \in ChildMenus : btnCount[s] = 0
    /\ \A b \in Buttons : clickL[b] = 0 /\ expanded[b] = NULL /\ label[b] = NULL
    /\ \A l \in Links : touchL[l] = 0
    /\ \A m \in MenuNodes : focusL[m] = 0
    /\ escL = 0
    /\ error = NULL

\* C11: when no element matches menu_selector, or expanded_class is empty
\* (as supplied or once sanitised), init sets no attribute, inserts no
\* button, registers no listener and raises no error.
C11_InitNoOp ==
    (inited /\ (NoMenuMatches \/ ClassEmpties)) => NothingDone

\* C11 witness: init has returned on a page with menus, after sanitising a
\* non-empty expanded_class to the empty string.
C11_Witness ==
    /\ inited /\ ClassEmpties /\ ~NoMenuMatches
    /\ config["expanded_class"].s # << >>
    /\ menus # << >> /\ options.expanded_class = << >>

\* The option id was supplied with a value of its type.
ValidlySupplied(id) ==
    id \in DOMAIN config /\ (id = "expanded_class" => config[id].t = "string")

\* C12: for every configuration object, setOptions and init complete
\* without an error and every option not validly supplied holds its
\* default value.
C12_MalformedFallsBack ==
    inited =>
        /\ error = NULL
        /\ \A id \in OptionIds :
               ~ValidlySupplied(id) => options[id] = OptionsDefault[id]

\* The step is part of the dispatch of an event of one of the types: it
\* runs a listener call or the default action of such an event.
Dispatching(types) == queue # << >> /\ Head(queue).ev.type \in types

\* The step changes no class and no attribute of the page.
PageUnchanged == UNCHANGED <<cls, expanded, label, haspopup, btnCount>>

\* C13: without 'tab' no focus listener is called and a focus move changes
\* nothing; without 'esc' the dispatch of a keyup with keyCode 27 changes
\* nothing; without 'touch' the dispatch of a touchstart changes nothing and
\* is not prevented; without 'button' there is no toggle button and no
\* aria-expanded or aria-label is ever written.
C13_ModesGate ==
    [][inited =>
        /\ "tab" \notin options.mode =>
               /\ \A a, b \in Focusable : FocusMoveCalls(a, b) = << >>
               /\ ~Called("onFocus")
               /\ (Idle /\ active' # active) => (PageUnchanged /\ queue' = << >>)
        /\ ("esc" \notin options.mode /\ Dispatching({"keyup"})
                /\ Head(queue).ev.keyCode = KeyEsc) => PageUnchanged
        /\ ("touch" \notin options.mode /\ Dispatching({"touchstart"})) =>
               (PageUnchanged /\ ~prevented' /\ active' = active)
        /\ "button" \notin options.mode =>
               /\ InjectedButtons = {}
               /\ \A b \in Buttons : expanded'[b] = NULL /\ label'[b] = NULL]_vars

\* C13 witness: without 'touch', the touch on the link of the expanded
\* item P has been dispatched, unprevented, and P is still expanded.
C13_Witness ==
    /\ "touch" \notin options.mode /\ "tab" \in options.mode
    /\ last.h = "default" /\ last.type = "touchstart" /\ last.target = "aP"
    /\ ~last.prevented /\ last.wasExpanded /\ "P" \in cls

\* The elements inside the menu m that match child_menu_selector.
ChildMenusIn(m) ==
    {n \in Range(Descendants(m)) :
        Matches(n, options.child_menu_selector, {}, [s \in ChildMenus |-> 0])}

\* init has done nothing for the menu m.
Bypassed(m) ==
    /\ focusL[m] = 0
    /\ \A n \in Range(Descendants(m)) :
           /\ n \notin haspopup
           /\ n \in Links => touchL[n] = 0
           /\ n \in Buttons => ~InDocument(n) /\ clickL[n] = 0

\* init has done for the menu m all that the configuration asks for.
Processed(m) ==
    /\ "tab" \in options.mode => focusL[m] = 1
    /\ \A s \in ChildMenusIn(m) :
           /\ parentNode(s) \in haspopup
           /\ ("button" \in options.mode /\ DOMAIN options.button_attributes # {}) =>
                  /\ btnCount[s] = 1
                  /\ \A b \in Buttons : ChildMenuOf(b) = s => clickL[b] = 1
           /\ "touch" \in options.mode =>
                  \A l \in Links :
                      (l \in HrefLinks /\ parentNode(l) = parentNode(s)) => touchL[l] > 0

\* C14: after init, a matched menu without an element matching
\* child_menu_selector has no attribute, no button and no focus or touch
\* listener from init, and every matched menu with child menus is fully
\* processed.
C14_ChildlessMenuBypassed ==
    (inited /\ error = NULL) =>
        \A m \in Range(menus) :
            IF ChildMenusIn(m) = {} THEN Bypassed(m) ELSE Processed(m)

\* C14 witness: init has run in all four modes on the page whose third
\* menu has no child menu; the third menu has no focus listener, the
\* menu before it has one.
C14_Witness ==
    /\ AfterInit /\ options.mode = AllModes /\ DefaultAtts
    /\ menus = <<"M1", "M2", "M3">>
    /\ ChildMenusIn("M3") = {} /\ focusL["M3"] = 0
    /\ focusL["M2"] = 1 /\ btnCount["sP"] = 1 /\ touchL["aP"] = 1

\* The step is a call of one of the four event handlers.
HandlerCall == OnFocusCall \/ OnClickButtonCall \/ OnTouchLinkCall \/ OnKeyESCCall

\* The injected buttons of the menu items whose expanded class the step
\* adds or removes.
ButtonsOfChanged ==
    {b \in InjectedButtons : (parentNode(b) \in cls') # (parentNode(b) \in cls)}

\* C15: with the default aria-label object, when an event handler returns
\* the toggle button of every menu item it changed has the 'collapse'
\* aria-label if the item carries the expanded class and the 'expand'
\* aria-label if it does not.
C15_LabelMirrorsClass ==
    [][(HandlerCall /\ DefaultAtts /\ "button" \in options.mode) =>
        \A b \in ButtonsOfChanged :
            label'[b] = IF parentNode(b) \in cls' THEN LabelCollapse ELSE LabelExpand]_vars

\* The aria-label option is a string.
StaticLabel ==
    /\ "aria-label" \in DOMAIN options.button_attributes
    /\ options.button_attributes["aria-label"].t = "string"

\* C16: when button_attributes['aria-label'] is a string, every injected
\* button has that string as its aria-label after init and after every
\* focus, click, touch and ESC event.
C16_StaticLabel ==
    (inited /\ error = NULL /\ StaticLabel) =>
        \A b \in InjectedButtons :
            label[b] = options.button_attributes["aria-label"].s

\* C16 witness: with a string aria-label, a mousedown on the button of P
\* has expanded P and the button still has the string.
C16_Witness ==
    /\ StaticLabel /\ ButtonClicked /\ last.target = "bP"
    /\ "P" \in cls /\ expanded["bP"] = "true"
    /\ label["bP"] = "Toggle child menu"

\* A script before 1.0.0 has run init.
OldInited == inited /\ version \in OldVersions

\* C17: before 1.0.0, with an empty button attributes object init
\* completes without error, sets aria-haspopup on every parent of a child
\* menu, registers the focus, touch and key listeners and inserts no
\* button.
C17_EmptyAttsNoButton ==
    (OldInited /\ DOMAIN options.button_attributes = {}) =>
        /\ error = NULL
        /\ \A s \in ProcessedChildMenus :
               /\ parentNode(s) \in haspopup
               /\ btnCount[s] = 0
               /\ \A l \in HrefLinks : parentNode(l) = parentNode(s) => touchL[l] > 0
        /\ \A m \in Range(menus) : ChildMenusIn(m) # {} => focusL[m] = 1
        /\ ProcessedChildMenus # {} => escL > 0

\* C18: before 1.0.0, with an empty button selector, onFocus still adds
\* the expanded class to (focusin) or removes it from (focusout) every
\* expandable ancestor of the target, once every onKeydown listener has
\* handled a keyCode 27 no menu item has the class, and each onFocus and
\* onKeydown call returns without an error.
C18_EmptySelectorHandlers ==
    (OldInited /\ options.button_selector = "") =>
        /\ (last.h = "onFocus" /\ last.type = "focusin") =>
               UpToMenu(last.target) \cap haspopup \subseteq cls
        /\ (last.h = "onFocus" /\ last.type = "focusout") =>
               UpToMenu(last.target) \cap haspopup \cap cls = {}
        /\ (last.h = "onKeydown" /\ last.keyCode = KeyEsc /\ queue = << >>) =>
               cls \cap InsideMenus = {}
        /\ last.h \in {"onFocus", "onKeydown"} => error = NULL

\* The button changeButtonAttributes looks up for the event of the last
\* listener call.
ButtonOfLast ==
    querySelector(parentNode(last.target), options.button_selector, haspopup, btnCount)

\* C19: in 0.0.6 with an aria-label object, once onFocus or onClick has
\* returned from its closing changeButtonAttributes call, the button of
\* the event's menu item has the 'collapse' aria-label if the item carries
\* the expanded class and the 'expand' aria-label if it does not.
C19_DynamicLabel06 ==
    (OldInited /\ version = "0.0.6" /\ error = NULL
        /\ LabelOption(options).t = "object"
        /\ last.h \in {"onFocus", "onClick"} /\ ButtonOfLast # NULL) =>
        label[ButtonOfLast] =
            IF parentNode(last.target) \in cls THEN LabelCollapse ELSE LabelExpand

\* C20: in 0.0.6, once onTouch has handled a touch on the link of an
\* expandable menu item that lacked the expanded class, the focus events
\* of link.focus() included, the item carries the class.
C20_TouchExpands06 ==
    (OldInited /\ version = "0.0.6" /\ last.h = "onTouch"
        /\ TouchedItem \in haspopup /\ ~last.wasExpanded) =>
        TouchedItem \in cls

\* The aria-haspopup siblings of the menu item of the clicked button.
ClickedSiblings ==
    {sib \in Range(Kids(parentNode(parentNode(last.target)))) \cap haspopup :
        sib # parentNode(last.target)}

\* C21: once onClickButton has toggled a menu item, no aria-haspopup
\* sibling of the item carries the expanded class and the toggle button of
\* every such sibling has aria-expanded="false".
C21_ClickCollapsesSiblings ==
    ButtonClicked =>
        \A sib \in ClickedSiblings :
            /\ sib \notin cls
            /\ \A b \in InjectedButtons : parentNode(b) = sib => expanded[b] = "false"

\* C21 witness: the button of the collapsed item A1 was clicked; A1 is
\* expanded, its aria-haspopup sibling A2 is collapsed and the button of A2
\* reads "false".
C21_Witness ==
    /\ ButtonClicked /\ last.target = "bA1" /\ ~last.wasExpanded
    /\ ClickedSiblings = {"A2"}
    /\ "A1" \in cls /\ "A2" \notin cls /\ expanded["bA2"] = "false"

\* C22: in tab mode, once a focus move has been handled after nothing but
\* focus moves, the elements carrying the expanded class are exactly the
\* aria-haspopup elements on the way from the focused element up to its
\* menu container; none when the focus is outside every processed menu.
C22_FocusTracksPath ==
    (Idle /\ error = NULL /\ "tab" \in options.mode) =>
        cls = UpToMenu(active) \cap haspopup

\* C22 witness: the focus has left the link of the expanded item P for the
\* body and nothing is expanded.
C22_Witness ==
    /\ Idle /\ "tab" \in options.mode
    /\ last.h = "onFocus" /\ last.type = "focusout" /\ last.target = "aP"
    /\ last.wasExpanded
    /\ active = "body" /\ cls = {}

\* The focus is on a link inside the element.
FocusOnLinkIn(item) == active \in Links /\ active \in Range(Descendants(item))

\* The step is the onClickButton call for a mousedown on the button of an
\* expanded item with the focus on a link inside the item.
ClickOnFocusExpanded ==
    /\ OnClickButtonCall
    /\ Head(queue).ev.type = "mousedown"
    /\ parentNode(Head(queue).ev.target) \in cls
    /\ FocusOnLinkIn(parentNode(Head(queue).ev.target))

\* C23: the onClickButton call for a mousedown on the button of an item
\* expanded with the focus on a link inside it collapses the item and
\* prevents the default, leaving only the default action to come; and the
\* default action of a prevented mousedown ends the dispatch without a
\* focus move, a listener call or a change of class or attribute.
C23_ClickCollapseStays ==
    [][/\ ClickOnFocusExpanded =>
            /\ parentNode(Head(queue).ev.target) \notin cls'
            /\ prevented'
            /\ Len(queue') = 1 /\ Head(queue').h = "default"
       /\ (DefaultAction /\ Head(queue).ev.type = "mousedown" /\ prevented) =>
            /\ queue' = << >>
            /\ UNCHANGED <<cls, expanded, label, active>>]_vars

\* C23 witness: the focus on the link of A1 had expanded A and A1; the
\* mousedown on the button of A1 has been dispatched to its end, prevented:
\* A1 is collapsed and the link still has the focus.
C23_Witness ==
    /\ last.h = "default" /\ last.type = "mousedown" /\ last.target = "bA1"
    /\ last.prevented /\ queue = << >>
    /\ active = "aA1" /\ "A" \in cls /\ "A1" \notin cls
    /\ expanded["bA1"] = "false"

\* The elements whose expanded class the step adds or removes.
ClassChanged == (cls \ cls') \cup (cls' \ cls)

\* The element is the item of the button the called handler is for, or an
\* aria-haspopup sibling of that item.
ItemOrSibling(n) ==
    \/ n = parentNode(Head(queue).ev.target)
    \/ /\ n \in haspopup
       /\ parentNode(n) = parentNode(parentNode(Head(queue).ev.target))

\* C24: an onClickButton call changes the expanded class of the button's
\* menu item and of the aria-haspopup siblings of that item only: the
\* class of every ancestor, of every descendant of the item or of a
\* sibling, and of every element of another menu stays as it was.
C24_ClickFrame ==
    [][OnClickButtonCall => \A n \in ClassChanged : ItemOrSibling(n)]_vars

\* C24 witness: with A, A1 and P expanded, the button of A was clicked: A
\* is collapsed, its descendant A1 and the item P of the other menu still
\* carry the class.
C24_Witness ==
    /\ ButtonClicked /\ last.target = "bA" /\ last.wasExpanded
    /\ "A" \notin cls /\ "A1" \in cls /\ "P" \in cls

\* The menu items without a child menu.
LeafItems == {i \in Items : Range(Kids(i)) \cap ChildMenus = {}}

NoOpCall ==
    /\ UNCHANGED <<cls, expanded, label, haspopup, btnCount, active, prevented>>
    /\ ~last'.prevented

\* C26: an onClickButton call for a keyup whose keyCode is neither 13 nor
\* 32 returns false, changes no class and no attribute and does not
\* prevent the default,
\* and an onKeyESC call for a keyCode other than 27 changes nothing.
C26_OtherKeysNoOp ==
    [][/\ (OnClickButtonCall /\ Head(queue).ev.type = "keyup"
            /\ Head(queue).ev.keyCode \notin {KeyEnter, KeySpace}) =>
            (NoOpCall /\ onClickButtonReturns(Head(queue).ev) = "false")
       /\ (OnKeyESCCall /\ Head(queue).ev.keyCode # KeyEsc) => NoOpCall]_vars

\* C26 witness: with the focus on the button of the expanded item P, the
\* keyup of the Tab key has gone through onClickButton and onKeyESC: P is
\* still expanded and the default was not prevented.
C26_Witness ==
    /\ last.h = "onKeyESC" /\ last.type = "keyup" /\ last.keyCode = 9
    /\ last.target = "bP" /\ clickL["bP"] = 1
    /\ ~prevented /\ "P" \in cls /\ expanded["bP"] = "true"

\* The number of characters among the first i of s that sanitisation keeps.
KeptUpTo(s, i) == Cardinality({j \in 1..i : s[j] \in ClassChars})

\* r is s without its characters outside a-z, A-Z, 0-9, '-' and '_': the
\* kept characters, each at the place its rank gives it.
IsSanitised(s, r) ==
    /\ Len(r) = KeptUpTo(s, Len(s))
    /\ \A i \in 1..Len(s) : s[i] \in ClassChars => r[KeptUpTo(s, i)] = s[i]

\* C27: for a string supplied as expanded_class, the stored expanded_class
\* (the class the handlers read) is that string without its characters
\* outside a-z, A-Z, 0-9, '-' and '_' and contains no other character; the
\* value supplied for any other known option is stored unchanged.
C27_ClassSanitised ==
    (inited /\ "expanded_class" \in DOMAIN config
        /\ config["expanded_class"].t = "string") =>
        /\ error = NULL
        /\ IsSanitised(config["expanded_class"].s, options.expanded_class)
        /\ \A i \in 1..Len(options.expanded_class) :
               options.expanded_class[i] \in ClassChars
        /\ \A id \in (OptionIds \cap DOMAIN config) \ {"expanded_class"} :
               options[id] = config[id]

\* C27 witness: the expanded class '.a' was supplied with a menu selector
\* of its own; 'a' is stored, the selector is stored as supplied, and a
\* focusin has expanded P.
C27_Witness ==
    /\ inited /\ "expanded_class" \in DOMAIN config
    /\ config["expanded_class"] = Str(<<".", "a">>)
    /\ options.expanded_class = <<"a">>
    /\ config["menu_selector"] = SelMenu06 /\ options.menu_selector = SelMenu06
    /\ last.h = "onFocus" /\ last.type = "focusin" /\ "P" \in cls

\* The listener calls of the script in the dispatch under way.
PendingHandlerCalls == {i \in 1..Len(queue) : queue[i].h \in Handlers}

\* What holds of the page load at every moment: init is called at most
\* once and not while the document is loading; a script that registered
\* no DOMContentLoaded listener has called init, one that registered it
\* has init called when DOMContentLoaded fires; before init has returned
\* no listener is registered and none is called.
BootSafe ==
    /\ boot.inits <= 1
    /\ inited <=> boot.inits = 1
    /\ boot.inits = 1 => boot.readyState # "loading"
    /\ (boot.script /\ boot.domL = 0) => boot.inits = 1
    /\ boot.domL > 0 => (boot.inits = 1 <=> boot.dcl)
    /\ ~inited =>
           /\ PendingHandlerCalls = {}
           /\ escL = 0
           /\ \A m \in MenuNodes : focusL[m] = 0
           /\ \A l \in Links : touchL[l] = 0
           /\ \A b \in Buttons : clickL[b] = 0

\* The script's last statement: with readyState 'loading' it registers
\* one DOMContentLoaded listener and init is not called; otherwise init
\* is called before the script ends.
BootBranch ==
    RunScript =>
        IF boot.readyState = "loading"
        THEN boot'.domL = 1 /\ boot'.inits = 0 /\ ~inited'
        ELSE boot'.domL = 0 /\ boot'.inits = 1 /\ inited'

\* C28: on every page load init is called exactly once and never while
\* document.readyState is 'loading': the script defers it to
\* DOMContentLoaded when it finds 'loading' and calls it at once
\* otherwise, and no listener of the script is called before init has
\* returned.
C28_InitOnceAfterLoad ==
    /\ []BootSafe
    /\ [][BootBranch /\ (HandlerCall => inited)]_vars
    /\ <>[](boot.inits = 1)

\* C28 witness: the script ran while the document was loading, init ran
\* from its DOMContentLoaded listener, and afterwards a focusin on the
\* link of P has expanded P.
C28_Witness ==
    /\ boot.domL = 1 /\ boot.dcl /\ boot.inits = 1
    /\ last.h = "onFocus" /\ last.type = "focusin" /\ last.target = "aP"
    /\ "P" \in cls

====
